---------------------------- MODULE Spec2Model ----------------------------
(***************************************************************************)
(* Model of the catan-game-logic crate: the bank (resource reserve,        *)
(* development-card stock, trade registry), the trade state machine and    *)
(* the game-level settlement of a trade between two player ledgers.        *)
(*                                                                         *)
(* Machine words.  Every count in the crate is a `usize`.  A count is held *)
(* here as a two's-complement residue: the integer r stands for the word   *)
(* r mod 2^64.  r >= 0 is the word r itself; r < 0 is the word 2^64 + r,   *)
(* i.e. a count that has wrapped below zero (USIZE_MAX is -1).  Addition   *)
(* and subtraction of residues are exact modulo 2^64; comparisons and the  *)
(* overflow tests are the unsigned ones (ult, add_overflows,               *)
(* sub_overflows).  All residues of the model stay well inside the range   *)
(* of an i32, where the cast `as i32` keeps the residue.                   *)
(*                                                                         *)
(* Builds.  Integer overflow is not an error value in Rust: with           *)
(* overflow checks (debug profile, `cargo test`) the operation panics,     *)
(* without them (release profile) it wraps.  overflow_checks is the build  *)
(* profile, fixed at start; a panic stops the program (panicked).          *)
(***************************************************************************)
EXTENDS Integers, Sequences, FiniteSets

VARIABLES
    players,            \* Game.players : Vec<Player>, each [colour, resources]
    trades,             \* Game.bank.trades : HashMap<Uuid, Trade>
    resources,          \* Game.bank.resources : Resources (the reserve)
    development_cards,  \* Game.bank.development_cards : HashMap<DevelopmentCard, usize>
    held_pools,         \* pools returned by distribute_resource and not yet returned
    drawn_cards,        \* cards drawn and not yet returned, per kind
    settled,            \* identifiers for which the game-level finalize_trade returned Ok
    overflow_checks,    \* build profile: TRUE = overflow panics, FALSE = overflow wraps
    panicked,           \* a panic has unwound the program
    last                \* the last call: [op, args, result, value]

vars == <<players, trades, resources, development_cards, held_pools,
          drawn_cards, settled, overflow_checks, panicked, last>>

---------------------------------------------------------------------------
(* Bounds of the model *)

\* add_player calls
MaxPlayers == 2
\* live trades in the registry
MaxTrades == 1
\* length of a trade's acceptance log
MaxAccepts == 2
\* distributed pools outstanding at once
MaxHeld == 2
\* magnitude of a ledger count the game specification follows
MaxUnits == 4
\* largest count of a kind in the pools the arithmetic is called with
MaxCount == 1

---------------------------------------------------------------------------
(* usize arithmetic on residues *)

USIZE_MAX == 0 - 1

\* a < b as unsigned words
ult(a, b) == IF (a >= 0) = (b >= 0) THEN a < b ELSE a >= 0

\* a + b does not fit in a usize
add_overflows(a, b) ==
    IF a >= 0 /\ b >= 0 THEN FALSE
    ELSE IF a < 0 /\ b < 0 THEN TRUE
    ELSE a + b >= 0

\* a - b is below zero
sub_overflows(a, b) == ult(a, b)

\* a * b does not fit in a usize, for words that are small or close to 2^64
mul_overflows(a, b) ==
    IF a >= 0 /\ b >= 0 THEN FALSE
    ELSE a \notin {0, 1} /\ b \notin {0, 1}

\* `x as i32` for a residue inside the i32 range
as_i32(x) == x

---------------------------------------------------------------------------
(* resources.rs *)

ResourceKind == {"Ore", "Grain", "Wool", "Brick", "Lumber"}

\* the fields of struct Resources, in the order the arithmetic impls assign them
Fields == <<"ore", "grain", "wool", "brick", "lumber">>

\* the fields of struct Resources in declaration order, which #[derive(Ord)] compares
Declared == <<"ore", "grain", "lumber", "brick", "wool">>

FieldSet == {Fields[i] : i \in 1..5}

Pos(f) == CHOOSE i \in 1..5 : Fields[i] = f

\* Index<ResourceKind> / IndexMut<ResourceKind>
index(kind) ==
    CASE kind = "Ore" -> "ore"
      [] kind = "Grain" -> "grain"
      [] kind = "Wool" -> "wool"
      [] kind = "Brick" -> "brick"
      [] kind = "Lumber" -> "lumber"

new_explicit(ore, grain, wool, brick, lumber) ==
    [ore |-> ore, grain |-> grain, wool |-> wool, brick |-> brick, lumber |-> lumber]

new_with_amount(amount) ==
    [ore |-> amount, grain |-> amount, wool |-> amount, brick |-> amount, lumber |-> amount]

Resources_new == [ore |-> 0, grain |-> 0, wool |-> 0, brick |-> 0, lumber |-> 0]

\* derived PartialOrd::lt: lexicographic over the declared field order
RECURSIVE lex_lt(_, _, _)
lex_lt(a, b, i) ==
    IF i > 5 THEN FALSE
    ELSE IF a[Declared[i]] # b[Declared[i]] THEN ult(a[Declared[i]], b[Declared[i]])
    ELSE lex_lt(a, b, i + 1)

lt(a, b) == lex_lt(a, b, 1)

\* position of the first field among the overflowing ones, 6 when none is
FirstFault(bad) ==
    IF bad = {} THEN 6 ELSE CHOOSE i \in bad : \A j \in bad : i <= j

\* AddAssign: field by field; with overflow checks the first overflowing
\* field panics and the fields before it are already written
add_assign(self, rhs, checks) ==
    LET bad == {i \in 1..5 : add_overflows(self[Fields[i]], rhs[Fields[i]])}
        k == IF checks THEN FirstFault(bad) ELSE 6
    IN [val |-> [f \in FieldSet |-> IF Pos(f) < k THEN self[f] + rhs[f] ELSE self[f]],
        panic |-> k <= 5]

\* SubAssign: as add_assign, with subtraction
sub_assign(self, rhs, checks) ==
    LET bad == {i \in 1..5 : sub_overflows(self[Fields[i]], rhs[Fields[i]])}
        k == IF checks THEN FirstFault(bad) ELSE 6
    IN [val |-> [f \in FieldSet |-> IF Pos(f) < k THEN self[f] - rhs[f] ELSE self[f]],
        panic |-> k <= 5]

\* Add: a new pool; the lumber field is written `self.ore + rhs.ore`.  With
\* overflow checks an overflowing sum panics and no pool is returned.
add(self, rhs, checks) ==
    IF checks /\ \E f \in {"ore", "grain", "wool", "brick"} : add_overflows(self[f], rhs[f])
    THEN [result |-> "panic", value |-> "()"]
    ELSE [result |-> "Ok",
          value |-> [ore |-> self.ore + rhs.ore,
                     grain |-> self.grain + rhs.grain,
                     wool |-> self.wool + rhs.wool,
                     brick |-> self.brick + rhs.brick,
                     lumber |-> self.ore + rhs.ore]]

\* Sub: a new pool; the lumber field is written `self.ore - rhs.ore`
sub(self, rhs, checks) ==
    IF checks /\ \E f \in {"ore", "grain", "wool", "brick"} : sub_overflows(self[f], rhs[f])
    THEN [result |-> "panic", value |-> "()"]
    ELSE [result |-> "Ok",
          value |-> [ore |-> self.ore - rhs.ore,
                     grain |-> self.grain - rhs.grain,
                     wool |-> self.wool - rhs.wool,
                     brick |-> self.brick - rhs.brick,
                     lumber |-> self.ore - rhs.ore]]

\* Mul<usize>: a new pool, every field times the scalar.  With overflow
\* checks an overflowing product panics and no pool is returned.
mul(self, scalar, checks) ==
    IF checks /\ \E f \in FieldSet : mul_overflows(self[f], scalar)
    THEN [result |-> "panic", value |-> "()"]
    ELSE [result |-> "Ok", value |-> [f \in FieldSet |-> self[f] * scalar]]

\* IntoIterator: the (kind, count) pairs of a pool
into_iter(self) == {<<kind, self[index(kind)]>> : kind \in ResourceKind}

(* building.rs *)

Building == {"Settlement", "City", "Road"}

\* Building::get_resource_cost
get_resource_cost(building) ==
    CASE building = "Settlement" -> new_explicit(0, 1, 1, 1, 1)
      [] building = "City" -> new_explicit(3, 2, 0, 0, 0)
      [] building = "Road" -> new_explicit(0, 0, 0, 1, 1)

\* Resources::can_build: the filter keeps the pairs whose count is 0
can_build(self, infrastructure) ==
    LET resource_requirements == get_resource_cost(infrastructure)
        kept == {p \in into_iter(resource_requirements) : p[2] = 0}
    IN \A p \in kept : ~ult(self[index(p[1])], p[2])

---------------------------------------------------------------------------
(* development_cards.rs *)

DevelopmentCard == {"YearOfPlenty", "Monopoly", "Knight", "RoadBuilding", "HiddenVictoryPoint"}

\* std::mem::variant_count::<DevelopmentCard>()
variant_count == Cardinality(DevelopmentCard)

\* DevelopmentCard::random(): any of the five variants
random == DevelopmentCard

---------------------------------------------------------------------------
(* bank.rs *)

TOTAL_RESOURCES == 19

\* Bank::new seeding one Knight too many
cards_with_extra_knight ==
    [c \in DevelopmentCard |->
        CASE c = "YearOfPlenty" -> 2
          [] c = "RoadBuilding" -> 2
          [] c = "Monopoly" -> 2
          [] c = "HiddenVictoryPoint" -> 5
          [] c = "Knight" -> 15]

\* Bank::new, development_cards
canonical_cards ==
    [c \in DevelopmentCard |->
        CASE c = "YearOfPlenty" -> 2
          [] c = "RoadBuilding" -> 2
          [] c = "Monopoly" -> 2
          [] c = "HiddenVictoryPoint" -> 5
          [] c = "Knight" -> 14]

ErrNoCards == "No development cards available"
ErrCannotDistribute == "Cannot distribute that amount of resources"

\* Bank::distribute_random_development_card from iteration i on: the set of
\* outcomes over the kinds random() can return in this and later iterations
RECURSIVE draw_loop(_, _)
draw_loop(cards, i) ==
    UNION { IF cards[dev_card_kind] > 0
            THEN {[cards |-> [cards EXCEPT ![dev_card_kind] = @ - 1],
                   result |-> "Ok", value |-> dev_card_kind]}
            ELSE IF i + 1 = variant_count
            THEN {[cards |-> cards, result |-> ErrNoCards, value |-> "()"]}
            ELSE draw_loop(cards, i + 1)
          : dev_card_kind \in random }

distribute_random_development_card(cards) == draw_loop(cards, 0)

\* return_dev_card putting two cards back
return_two_cards(cards, kind) == [cards EXCEPT ![kind] = @ + 2]

\* Bank::return_dev_card
return_dev_card(cards, kind) == [cards EXCEPT ![kind] = @ + 1]

\* Bank::distribute_resource
distribute_resource(res, kind, amount, checks) ==
    IF as_i32(res[index(kind)]) - as_i32(amount) < 0
    THEN [resources |-> res, result |-> ErrCannotDistribute, value |-> "()"]
    ELSE LET distributed_resources == [Resources_new EXCEPT ![index(kind)] = amount]
         IN IF sub_overflows(res[index(kind)], amount) /\ checks
            THEN [resources |-> res, result |-> "panic", value |-> "()"]
            ELSE [resources |-> [res EXCEPT ![index(kind)] = @ - amount],
                  result |-> "Ok", value |-> distributed_resources]

\* return_resources written with the lumber count taken from the ore counts
return_resources_lumber_from_ore(res, pool, checks) ==
    [val |-> [add_assign(res, pool, checks).val EXCEPT !.lumber = res.ore + pool.ore],
     panic |-> add_assign(res, pool, checks).panic]

\* Bank::return_resources
return_resources(res, pool, checks) == add_assign(res, pool, checks)

---------------------------------------------------------------------------
(* trade.rs *)

TradeState == {"Proposed", "LockedIn", "Accepted"}

None == "None"

ErrCannotAccept == "Cannot accept trade offer at this stage"
ErrCannotConfirm == "Cannot confirm the recipient for trade offer at this stage"
ErrMissingRecipient == "Missing trade recipient"
ErrAlreadyAccepted == "This trade has already been accepted"
ErrNoPartner == "No trade partner"

\* Trade::new with the two bundles in each other's place
Trade_new_swapped(from, offering, wants) ==
    [from |-> from, to |-> None, accepted_by |-> <<>>,
     offering |-> wants, wants |-> offering, state |-> "Proposed"]

\* Trade::new
Trade_new(from, offering, wants) ==
    [from |-> from, to |-> None, accepted_by |-> <<>>,
     offering |-> offering, wants |-> wants, state |-> "Proposed"]

\* Trade::accept keeping the log free of duplicates
accept_once(trade, accepted_by) ==
    IF trade.state # "Proposed" THEN [trade |-> trade, result |-> ErrCannotAccept]
    ELSE IF \E i \in 1..Len(trade.accepted_by) : trade.accepted_by[i] = accepted_by
    THEN [trade |-> trade, result |-> "Ok"]
    ELSE [trade |-> [trade EXCEPT !.accepted_by = Append(@, accepted_by)], result |-> "Ok"]

\* Trade::accept
accept(trade, accepted_by) ==
    IF trade.state = "Proposed"
    THEN [trade |-> [trade EXCEPT !.accepted_by = Append(@, accepted_by)], result |-> "Ok"]
    ELSE [trade |-> trade, result |-> ErrCannotAccept]

\* Trade::confirm_recipient open only to a party of the acceptance log
confirm_recipient_of_acceptor(trade, player) ==
    IF trade.state = "Proposed"
       /\ \E i \in 1..Len(trade.accepted_by) : trade.accepted_by[i] = player
    THEN [trade |-> [trade EXCEPT !.to = player, !.state = "LockedIn"], result |-> "Ok"]
    ELSE [trade |-> trade, result |-> ErrCannotConfirm]

\* Trade::confirm_recipient
confirm_recipient(trade, player) ==
    IF trade.state = "Proposed"
    THEN [trade |-> [trade EXCEPT !.to = player, !.state = "LockedIn"], result |-> "Ok"]
    ELSE [trade |-> trade, result |-> ErrCannotConfirm]

\* Trade::complete without the arm that refuses a Proposed trade
complete_without_recipient(trade) ==
    IF trade.state = "Accepted"
    THEN [trade |-> trade, result |-> ErrAlreadyAccepted]
    ELSE [trade |-> [trade EXCEPT !.state = "Accepted"], result |-> "Ok"]

\* Trade::complete
complete(trade) ==
    CASE trade.state = "Proposed" -> [trade |-> trade, result |-> ErrMissingRecipient]
      [] trade.state = "Accepted" -> [trade |-> trade, result |-> ErrAlreadyAccepted]
      [] OTHER -> [trade |-> [trade EXCEPT !.state = "Accepted"], result |-> "Ok"]

\* Trade::get_offering_player
get_offering_player(trade) == trade.from

\* Trade::get_trade_partner returning the offering party
get_trade_partner_from(trade) ==
    IF trade.state = "Proposed" THEN [result |-> ErrNoPartner, value |-> None]
    ELSE [result |-> "Ok", value |-> trade.from]

\* Trade::get_trade_partner; to.unwrap() panics on None
get_trade_partner(trade) ==
    IF trade.state = "Proposed" THEN [result |-> ErrNoPartner, value |-> None]
    ELSE IF trade.to = None THEN [result |-> "panic", value |-> None]
    ELSE [result |-> "Ok", value |-> trade.to]

---------------------------------------------------------------------------
(* bank.rs, trade registry *)

ErrTradeNotFound == "Trade not found"

\* a lookup that falls back on a live trade when the key is absent
get_trade_or_any(ts, trade_id) ==
    IF trade_id \in DOMAIN ts THEN <<ts[trade_id]>>
    ELSE IF DOMAIN ts # {} THEN <<ts[CHOOSE k \in DOMAIN ts : TRUE]>>
    ELSE <<>>

\* Bank::get_trade / Bank::get_trade_mut: the Option is <<trade>> for Some
\* and <<>> for None
get_trade(ts, trade_id) == IF trade_id \in DOMAIN ts THEN <<ts[trade_id]>> ELSE <<>>

\* an insert that leaves the new entry alone in the map
insert_alone(ts, key, value) == [k \in {key} |-> value]

\* HashMap::insert
insert(ts, key, value) ==
    [k \in DOMAIN ts \cup {key} |-> IF k = key THEN value ELSE ts[k]]

\* propose_trade storing the trade as already locked in
propose_trade_locked(ts, uuid, from, offering, wants) ==
    insert(ts, uuid, [Trade_new(from, offering, wants) EXCEPT !.state = "LockedIn"])

\* Bank::propose_trade, uuid being the value Uuid::new_v4() returns
propose_trade(ts, uuid, from, offering, wants) ==
    insert(ts, uuid, Trade_new(from, offering, wants))

\* accept_trade writing the accepting party over the offering party
accept_trade_over_from(ts, trade_id, accepted_by) ==
    IF get_trade(ts, trade_id) = <<>>
    THEN [trades |-> ts, result |-> ErrTradeNotFound]
    ELSE LET r == accept(get_trade(ts, trade_id)[1], accepted_by)
         IN [trades |-> [ts EXCEPT ![trade_id] =
                            IF r.result = "Ok" THEN [r.trade EXCEPT !.from = accepted_by]
                            ELSE r.trade],
             result |-> r.result]

\* Bank::propose_trade_with_bank: wants * 4, propose_trade, then todo!(),
\* which panics with the trade already in the registry
propose_trade_with_bank(ts, uuid, player, wants, checks) ==
    LET requirements == mul(wants, 4, checks)
    IN IF requirements.result = "panic"
       THEN [trades |-> ts, result |-> "panic"]
       ELSE [trades |-> propose_trade(ts, uuid, player, requirements.value, wants),
             result |-> "panic"]

\* Bank::accept_trade
accept_trade(ts, trade_id, accepted_by) ==
    IF get_trade(ts, trade_id) = <<>>
    THEN [trades |-> ts, result |-> ErrTradeNotFound]
    ELSE LET r == accept(get_trade(ts, trade_id)[1], accepted_by)
         IN [trades |-> [ts EXCEPT ![trade_id] = r.trade], result |-> r.result]

\* Bank::finalize_trade setting the recipient whatever the trade's state
bank_finalize_trade_any_state(ts, trade_id, player) ==
    IF get_trade(ts, trade_id) = <<>>
    THEN [trades |-> ts, result |-> ErrTradeNotFound]
    ELSE [trades |-> [ts EXCEPT ![trade_id].to = player, ![trade_id].state = "LockedIn"],
          result |-> "Ok"]

\* Bank::finalize_trade
bank_finalize_trade(ts, trade_id, player) ==
    IF get_trade(ts, trade_id) = <<>>
    THEN [trades |-> ts, result |-> ErrTradeNotFound]
    ELSE LET r == confirm_recipient(get_trade(ts, trade_id)[1], player)
         IN [trades |-> [ts EXCEPT ![trade_id] = r.trade], result |-> r.result]

---------------------------------------------------------------------------
(* player.rs, game.rs *)

ErrNoTradeWithId == "Could not find trade with that ID"
ErrCannotFinalize == "Cannot finalize trade at this time"
ErrNoPlayer == "Could not find that player"
ErrNotEnough == "Not enough resources to make this trade"

\* Player::new
Player_new(colour) == [colour |-> colour, resources |-> Resources_new]

\* Game::add_player
add_player(ps, colour) == Append(ps, Player_new(colour))

\* Game::get_player_mut: position of the first player of that colour, 0 for Err
get_player_mut(ps, colour) ==
    LET found == {i \in 1..Len(ps) : ps[i].colour = colour}
    IN IF found = {} THEN 0 ELSE CHOOSE i \in found : \A j \in found : i <= j

\* One leg of Game::finalize_trade (the block for `from`, then the block for
\* `to`): look the player up, compare the ledger with what it gives, then
\* ledger += gets; ledger -= gives
leg(ps, colour, gives, gets, checks) ==
    LET i == get_player_mut(ps, colour)
    IN IF i = 0 THEN [players |-> ps, result |-> ErrNoPlayer]
       ELSE IF lt(ps[i].resources, gives) THEN [players |-> ps, result |-> ErrNotEnough]
       ELSE LET added == add_assign(ps[i].resources, gets, checks)
                subbed == sub_assign(added.val, gives, checks)
            IN IF added.panic
               THEN [players |-> [ps EXCEPT ![i].resources = added.val], result |-> "panic"]
               ELSE [players |-> [ps EXCEPT ![i].resources = subbed.val],
                     result |-> IF subbed.panic THEN "panic" ELSE "Ok"]

\* Game::finalize_trade without the match on the trade's state
finalize_trade_any_state(ps, ts, trade_id, checks) ==
    IF get_trade(ts, trade_id) = <<>>
    THEN [players |-> ps, trades |-> ts, result |-> ErrNoTradeWithId]
    ELSE LET trade == [get_trade(ts, trade_id)[1] EXCEPT !.state = "Accepted"]
             trade_partner == get_trade_partner(trade)
             from == leg(ps, get_offering_player(trade), trade.offering, trade.wants, checks)
             to == leg(from.players, trade_partner.value, trade.wants, trade.offering, checks)
         IN IF trade_partner.result # "Ok"
            THEN [players |-> ps, trades |-> ts, result |-> trade_partner.result]
            ELSE IF from.result # "Ok"
            THEN [players |-> from.players, trades |-> ts, result |-> from.result]
            ELSE [players |-> to.players, trades |-> ts, result |-> to.result]

\* Game::finalize_trade.  The trade is a clone of the registry entry, so the
\* assignment through state_mut() changes the clone only.
finalize_trade(ps, ts, trade_id, checks) ==
    IF get_trade(ts, trade_id) = <<>>
    THEN [players |-> ps, trades |-> ts, result |-> ErrNoTradeWithId]
    ELSE LET cloned == get_trade(ts, trade_id)[1]
         IN IF cloned.state # "LockedIn"
            THEN [players |-> ps, trades |-> ts, result |-> ErrCannotFinalize]
            ELSE LET trade == [cloned EXCEPT !.state = "Accepted"]
                     offering == trade.offering
                     wants == trade.wants
                     offering_player == get_offering_player(trade)
                     trade_partner == get_trade_partner(trade)
                     from == leg(ps, offering_player, offering, wants, checks)
                     to == leg(from.players, trade_partner.value, wants, offering, checks)
                 IN IF trade_partner.result # "Ok"
                    THEN [players |-> ps, trades |-> ts, result |-> trade_partner.result]
                    ELSE IF from.result # "Ok"
                    THEN [players |-> from.players, trades |-> ts, result |-> from.result]
                    ELSE [players |-> to.players, trades |-> ts, result |-> to.result]

---------------------------------------------------------------------------
(* Inputs *)

\* PlayerColour values the calls are made with
Colours == {"Red", "Blue"}

\* Uuid::new_v4() values
Uuids == 1..MaxTrades

\* the identifiers the lookups are called with: the ones propose_trade can
\* hand out and 0, the nil identifier, which no version-4 uuid equals
TradeIds == 0..MaxTrades

\* the bundles of game.rs test_trade, held in a ledger
Bundles == {new_explicit(0, 1, 1, 0, 0), new_explicit(2, 0, 0, 0, 0)}

\* what a player asks of the bank in propose_trade_with_bank
BankWants == {new_explicit(2, 0, 0, 0, 0)}

\* <<offering, wants>> of a proposal: the trade of game.rs test_trade
Offers == {<<new_explicit(0, 1, 1, 0, 0), new_explicit(2, 0, 0, 0, 0)>>}

\* amounts asked of distribute_resource
Amounts == {0, 1, 5, 19, 20, USIZE_MAX}

\* counts of one kind in the pools the arithmetic is called with
Counts == 0..MaxCount

\* the pools the arithmetic and can_build are called with: every pool over
\* Counts, the cost of every building, and the pool of the largest words
Pools ==
    [ore : Counts, grain : Counts, wool : Counts, brick : Counts, lumber : Counts]
        \cup {get_resource_cost(building) : building \in Building}
        \cup {new_with_amount(USIZE_MAX)}

Call(op, args, result, value) ==
    [op |-> op, args |-> args, result |-> result, value |-> value]

---------------------------------------------------------------------------
(* Game::new *)

Init ==
    /\ players = <<>>
    /\ trades = <<>>
    /\ resources = new_with_amount(TOTAL_RESOURCES)
    /\ development_cards = canonical_cards
    /\ held_pools = <<>>
    /\ drawn_cards = [c \in DevelopmentCard |-> 0]
    /\ settled = {}
    /\ overflow_checks \in BOOLEAN
    /\ panicked = FALSE
    /\ last = Call("new", <<>>, "Ok", "()")

---------------------------------------------------------------------------
(* Calls on the bank's reserve and card stock *)

DistributeResource(kind, amount) ==
    /\ ~panicked
    /\ Len(held_pools) < MaxHeld
    /\ LET r == distribute_resource(resources, kind, amount, overflow_checks)
       IN /\ resources' = r.resources
          /\ held_pools' = IF r.result = "Ok" THEN Append(held_pools, r.value) ELSE held_pools
          /\ panicked' = (r.result = "panic")
          /\ last' = Call("distribute_resource", <<kind, amount>>, r.result, r.value)
    /\ UNCHANGED <<players, trades, development_cards, drawn_cards, settled, overflow_checks>>

\* return_resources with a pool that was distributed and is still held
ReturnResources(i) ==
    /\ ~panicked
    /\ i \in 1..Len(held_pools)
    /\ LET r == return_resources(resources, held_pools[i], overflow_checks)
       IN /\ resources' = r.val
          /\ panicked' = r.panic
          /\ last' = Call("return_resources", <<held_pools[i]>>,
                          IF r.panic THEN "panic" ELSE "Ok", "()")
    /\ held_pools' = [j \in 1..(Len(held_pools) - 1) |->
                        IF j < i THEN held_pools[j] ELSE held_pools[j + 1]]
    /\ UNCHANGED <<players, trades, development_cards, drawn_cards, settled, overflow_checks>>

DistributeRandomDevelopmentCard ==
    /\ ~panicked
    /\ \E r \in distribute_random_development_card(development_cards) :
          /\ development_cards' = r.cards
          /\ drawn_cards' = IF r.result = "Ok"
                            THEN [drawn_cards EXCEPT ![r.value] = @ + 1]
                            ELSE drawn_cards
          /\ last' = Call("distribute_random_development_card", <<>>, r.result, r.value)
    /\ UNCHANGED <<players, trades, resources, held_pools, settled, overflow_checks, panicked>>

\* return_dev_card with a card that was drawn and is still held
ReturnDevCard(kind) ==
    /\ ~panicked
    /\ drawn_cards[kind] > 0
    /\ development_cards' = return_dev_card(development_cards, kind)
    /\ drawn_cards' = [drawn_cards EXCEPT ![kind] = @ - 1]
    /\ last' = Call("return_dev_card", <<kind>>, "Ok", "()")
    /\ UNCHANGED <<players, trades, resources, held_pools, settled, overflow_checks, panicked>>

---------------------------------------------------------------------------
(* Calls on pools *)

\* held_pools[1] + held_pools[2]
Add ==
    /\ ~panicked
    /\ LET r == add(held_pools[1], held_pools[2], overflow_checks)
       IN /\ panicked' = (r.result = "panic")
          /\ last' = Call("add", <<held_pools[1], held_pools[2]>>, r.result, r.value)
    /\ UNCHANGED <<players, trades, resources, development_cards, held_pools,
                   drawn_cards, settled, overflow_checks>>

\* held_pools[1] - held_pools[2]
Sub ==
    /\ ~panicked
    /\ LET r == sub(held_pools[1], held_pools[2], overflow_checks)
       IN /\ panicked' = (r.result = "panic")
          /\ last' = Call("sub", <<held_pools[1], held_pools[2]>>, r.result, r.value)
    /\ UNCHANGED <<players, trades, resources, development_cards, held_pools,
                   drawn_cards, settled, overflow_checks>>

\* held_pools[1].can_build(infrastructure)
CanBuild(infrastructure) ==
    /\ ~panicked
    /\ last' = Call("can_build", <<held_pools[1], infrastructure>>, "Ok",
                    can_build(held_pools[1], infrastructure))
    /\ UNCHANGED <<players, trades, resources, development_cards, held_pools,
                   drawn_cards, settled, overflow_checks, panicked>>

---------------------------------------------------------------------------
(* Calls on the players and the trade registry *)

AddPlayer(colour) ==
    /\ ~panicked
    /\ Len(players) < MaxPlayers
    /\ players' = add_player(players, colour)
    /\ last' = Call("add_player", <<>>, "Ok", "()")
    /\ UNCHANGED <<trades, resources, development_cards, held_pools, drawn_cards,
                   settled, overflow_checks, panicked>>

\* *get_player_mut(colour).unwrap().resources_mut() = bundle, as test_trade does
SetResources(colour, bundle) ==
    /\ ~panicked
    /\ get_player_mut(players, colour) # 0
    /\ players' = [players EXCEPT ![get_player_mut(players, colour)].resources = bundle]
    /\ last' = Call("resources_mut", <<>>, "Ok", "()")
    /\ UNCHANGED <<trades, resources, development_cards, held_pools, drawn_cards,
                   settled, overflow_checks, panicked>>

\* propose_trade; a version-4 uuid is taken to differ from every live key
ProposeTrade(uuid, from, offering, wants) ==
    /\ ~panicked
    /\ uuid \notin DOMAIN trades
    /\ trades' = propose_trade(trades, uuid, from, offering, wants)
    /\ last' = Call("propose_trade", <<from, offering, wants>>, "Ok", uuid)
    /\ UNCHANGED <<players, resources, development_cards, held_pools, drawn_cards,
                   settled, overflow_checks, panicked>>

\* propose_trade_with_bank; the uuid as in ProposeTrade
ProposeTradeWithBank(uuid, player, wants) ==
    /\ ~panicked
    /\ uuid \notin DOMAIN trades
    /\ LET r == propose_trade_with_bank(trades, uuid, player, wants, overflow_checks)
       IN /\ trades' = r.trades
          /\ panicked' = (r.result = "panic")
          /\ last' = Call("propose_trade_with_bank", <<player, wants>>, r.result, "()")
    /\ UNCHANGED <<players, resources, development_cards, held_pools, drawn_cards,
                   settled, overflow_checks>>

AcceptTrade(trade_id, accepted_by) ==
    /\ ~panicked
    /\ (trade_id \in DOMAIN trades /\ trades[trade_id].state = "Proposed")
          => Len(trades[trade_id].accepted_by) < MaxAccepts
    /\ LET r == accept_trade(trades, trade_id, accepted_by)
       IN /\ trades' = r.trades
          /\ last' = Call("accept_trade", <<trade_id, accepted_by>>, r.result, "()")
    /\ UNCHANGED <<players, resources, development_cards, held_pools, drawn_cards,
                   settled, overflow_checks, panicked>>

BankFinalizeTrade(trade_id, player) ==
    /\ ~panicked
    /\ LET r == bank_finalize_trade(trades, trade_id, player)
       IN /\ trades' = r.trades
          /\ last' = Call("Bank::finalize_trade", <<trade_id, player>>, r.result, "()")
    /\ UNCHANGED <<players, resources, development_cards, held_pools, drawn_cards,
                   settled, overflow_checks, panicked>>

\* get_trade_mut(trade_id).unwrap().complete()
Complete(trade_id) ==
    /\ ~panicked
    /\ trade_id \in DOMAIN trades
    /\ LET r == complete(get_trade(trades, trade_id)[1])
       IN /\ trades' = [trades EXCEPT ![trade_id] = r.trade]
          /\ last' = Call("complete", <<trade_id>>, r.result, "()")
    /\ UNCHANGED <<players, resources, development_cards, held_pools, drawn_cards,
                   settled, overflow_checks, panicked>>

\* every count of every ledger is a residue the specification follows
InRange(ps) ==
    \A i \in 1..Len(ps) : \A f \in FieldSet :
        ps[i].resources[f] \in (0 - MaxUnits)..MaxUnits

GameFinalizeTrade(trade_id) ==
    /\ ~panicked
    /\ LET r == finalize_trade(players, trades, trade_id, overflow_checks)
       IN /\ InRange(r.players)
          /\ players' = r.players
          /\ trades' = r.trades
          /\ panicked' = (r.result = "panic")
          /\ settled' = IF r.result = "Ok" THEN settled \cup {trade_id} ELSE settled
          /\ last' = Call("Game::finalize_trade", <<trade_id>>, r.result, "()")
    /\ UNCHANGED <<resources, development_cards, held_pools, drawn_cards, overflow_checks>>

---------------------------------------------------------------------------
(* Specifications *)

\* the settlement: players, ledgers, and trades from proposal to the game-level
\* finalize_trade (the acceptance log, which the settlement never reads, is
\* followed by SpecTrade)
Next ==
    \/ \E colour \in Colours : AddPlayer(colour)
    \/ \E colour \in Colours, bundle \in Bundles : SetResources(colour, bundle)
    \/ \E uuid \in Uuids, from \in Colours, offer \in Offers :
          ProposeTrade(uuid, from, offer[1], offer[2])
    \/ \E uuid \in Uuids, player \in Colours, wants \in BankWants :
          ProposeTradeWithBank(uuid, player, wants)
    \/ \E trade_id \in Uuids, player \in Colours : BankFinalizeTrade(trade_id, player)
    \/ \E trade_id \in Uuids : Complete(trade_id)
    \/ \E trade_id \in TradeIds : GameFinalizeTrade(trade_id)

Spec == Init /\ [][Next]_vars

\* the trade protocol on the registry: proposal, acceptance, confirmation
NextTrade ==
    \/ \E uuid \in Uuids, from \in Colours, offer \in Offers :
          ProposeTrade(uuid, from, offer[1], offer[2])
    \/ \E uuid \in Uuids, player \in Colours, wants \in BankWants :
          ProposeTradeWithBank(uuid, player, wants)
    \/ \E trade_id \in TradeIds, accepted_by \in Colours : AcceptTrade(trade_id, accepted_by)
    \/ \E trade_id \in TradeIds, player \in Colours : BankFinalizeTrade(trade_id, player)
    \/ \E trade_id \in Uuids : Complete(trade_id)
    \/ \E trade_id \in TradeIds : GameFinalizeTrade(trade_id)

SpecTrade == Init /\ [][NextTrade]_vars

\* the registry with one more identifier than MaxTrades, so that a call on
\* one trade is made while others are live; the players are those of
\* game.rs test_trade
FrameUuids == 1..(MaxTrades + 1)

FrameIds == 0..(MaxTrades + 1)

\* as in game.rs test_trade, Red proposes and Blue accepts
FrameProposers == {"Red"}

FrameAcceptors == {"Blue"}

InitFrame ==
    /\ players = <<[colour |-> "Red", resources |-> new_explicit(0, 1, 1, 0, 0)],
                   [colour |-> "Blue", resources |-> new_explicit(2, 0, 0, 0, 0)]>>
    /\ trades = <<>>
    /\ resources = new_with_amount(TOTAL_RESOURCES)
    /\ development_cards = canonical_cards
    /\ held_pools = <<>>
    /\ drawn_cards = [c \in DevelopmentCard |-> 0]
    /\ settled = {}
    /\ overflow_checks \in BOOLEAN
    /\ panicked = FALSE
    /\ last = Call("new", <<>>, "Ok", "()")

NextFrame ==
    \/ \E uuid \in FrameUuids, from \in FrameProposers, offer \in Offers :
          ProposeTrade(uuid, from, offer[1], offer[2])
    \/ \E uuid \in FrameUuids, player \in FrameProposers, wants \in BankWants :
          ProposeTradeWithBank(uuid, player, wants)
    \/ \E trade_id \in FrameIds, accepted_by \in FrameAcceptors :
          AcceptTrade(trade_id, accepted_by)
    \/ \E trade_id \in FrameIds, player \in Colours : BankFinalizeTrade(trade_id, player)

SpecFrame == InitFrame /\ [][NextFrame]_vars

\* the bank's resource reserve
NextReserve ==
    \/ \E kind \in ResourceKind, amount \in Amounts : DistributeResource(kind, amount)
    \/ \E i \in 1..MaxHeld : ReturnResources(i)

SpecReserve == Init /\ [][NextReserve]_vars

\* the bank's development-card stock
NextCards ==
    \/ DistributeRandomDevelopmentCard
    \/ \E kind \in DevelopmentCard : ReturnDevCard(kind)

SpecCards == Init /\ [][NextCards]_vars

\* pool arithmetic and can_build
InitPools ==
    /\ players = <<>>
    /\ trades = <<>>
    /\ resources = new_with_amount(TOTAL_RESOURCES)
    /\ development_cards = canonical_cards
    /\ held_pools \in {<<self, rhs>> : self \in Pools, rhs \in Pools}
    /\ drawn_cards = [c \in DevelopmentCard |-> 0]
    /\ settled = {}
    /\ overflow_checks \in BOOLEAN
    /\ panicked = FALSE
    /\ last = Call("new", <<>>, "Ok", "()")

NextPools ==
    \/ Add
    \/ Sub
    \/ \E infrastructure \in Building : CanBuild(infrastructure)

SpecPools == InitPools /\ [][NextPools]_vars

---------------------------------------------------------------------------
(* Properties of the game-level settlement, checked under Spec *)

\* the step is a call of Game::finalize_trade(trade_id)
GameFinalized(trade_id) ==
    /\ last'.op = "Game::finalize_trade"
    /\ last'.args = <<trade_id>>

\* the ledger holds fewer units than the bundle in at least one kind
Short(ledger, bundle) == \E f \in FieldSet : ult(ledger[f], bundle[f])

\* C1: a call of the game-level finalize_trade that returns an error leaves
\* every ledger as it was before the call (no partial transfer)
C1_AllOrNothing ==
    [][\A trade_id \in Uuids :
          (GameFinalized(trade_id) /\ last'.result \notin {"Ok", "panic"})
              => players' = players]_vars

\* C2: once the game-level finalize_trade(id) has succeeded, every later
\* finalize_trade(id) fails and moves no resources
C2_SettledAtMostOnce ==
    [][\A trade_id \in settled :
          GameFinalized(trade_id) => (last'.result # "Ok" /\ players' = players)]_vars

\* C3: after a successful game-level finalize_trade(id) the registry entry
\* under id is in state Accepted
C3_RegistryAccepted ==
    (last.op = "Game::finalize_trade" /\ last.result = "Ok")
        => get_trade(trades, last.args[1])[1].state = "Accepted"

\* C4: the game-level finalize_trade of a LockedIn trade whose offering party
\* holds fewer units than the offered bundle in some kind fails with "Not
\* enough resources", leaves the trade LockedIn and mutates no ledger
C4_InsufficientFunds ==
    [][\A trade_id \in Uuids :
          ( /\ GameFinalized(trade_id)
            /\ get_trade(trades, trade_id) # <<>>
            /\ trades[trade_id].state = "LockedIn"
            /\ get_player_mut(players, trades[trade_id].from) # 0
            /\ Short(players[get_player_mut(players, trades[trade_id].from)].resources,
                     trades[trade_id].offering) )
          => ( /\ last'.result = ErrNotEnough
               /\ trades'[trade_id].state = "LockedIn"
               /\ players' = players )]_vars

\* the calls that subtract from a pool
SubtractingCalls == {"distribute_resource", "return_resources", "sub", "Game::finalize_trade"}

\* C5: no count of the reserve or of a ledger is ever a wrapped (negative)
\* word, and no call of distribute_resource, return_resources, subtraction
\* or the game-level finalize_trade ends in a panic instead of an error
C5_NoNegativeCount ==
    /\ \A f \in FieldSet : resources[f] >= 0
    /\ \A i \in 1..Len(players) : \A f \in FieldSet : players[i].resources[f] >= 0
    /\ last.op \in SubtractingCalls => last.result # "panic"

\* the ledger `new` is the ledger `old` minus the bundle `gives` plus the
\* bundle `gets` in every kind, as counts and not as wrapped words
Swapped(old, new, gives, gets) ==
    \A f \in FieldSet : new[f] = old[f] - gives[f] + gets[f] /\ new[f] >= 0

\* C13: a game-level finalize_trade of a LockedIn trade that returns Ok
\* leaves the offering party with its old ledger minus the offering plus the
\* wanted bundle, the counter-party with its old ledger minus the wanted plus
\* the offering bundle, and every other player's ledger as it was
C13_SwapsBundles ==
    [][\A trade_id \in Uuids :
          ( /\ GameFinalized(trade_id)
            /\ last'.result = "Ok"
            /\ get_trade(trades, trade_id) # <<>>
            /\ trades[trade_id].state = "LockedIn" )
          => LET trade == trades[trade_id]
                 from == get_player_mut(players, trade.from)
                 to == get_player_mut(players, trade.to)
             IN /\ Len(players') = Len(players)
                /\ Swapped(players[from].resources, players'[from].resources,
                           trade.offering, trade.wants)
                /\ Swapped(players[to].resources, players'[to].resources,
                           trade.wants, trade.offering)
                /\ \A i \in 1..Len(players) :
                      i \notin {from, to} => players'[i] = players[i]]_vars

\* C14: a game-level finalize_trade of a trade that is Proposed fails with
\* "Cannot finalize trade at this time", leaves the trade Proposed and leaves
\* every ledger as it was
C14_ProposedNotFinalized ==
    [][\A trade_id \in Uuids :
          ( /\ GameFinalized(trade_id)
            /\ get_trade(trades, trade_id) # <<>>
            /\ trades[trade_id].state = "Proposed" )
          => ( /\ last'.result = ErrCannotFinalize
               /\ trades' = trades
               /\ trades'[trade_id].state = "Proposed"
               /\ players' = players )]_vars

\* C14 witness: finalize_trade has been refused on a Proposed trade while a
\* player holds resources
C14_Witness ==
    /\ last.op = "Game::finalize_trade"
    /\ last.result = ErrCannotFinalize
    /\ get_trade(trades, last.args[1]) # <<>>
    /\ trades[last.args[1]].state = "Proposed"
    /\ \E i \in 1..Len(players) : players[i].resources # Resources_new

\* C23: an identifier for which the game-level finalize_trade has returned
\* Ok is no key of the registry in any later state: get_trade returns None
C23_SettledTradeRetired ==
    \A trade_id \in settled : get_trade(trades, trade_id) = <<>>

---------------------------------------------------------------------------
(* Properties of the trade protocol, checked under SpecTrade *)

\* position of a state in the order Proposed, LockedIn, Accepted
Rank(state) ==
    CASE state = "Proposed" -> 1
      [] state = "LockedIn" -> 2
      [] state = "Accepted" -> 3

\* C15: over every call of accept, confirm_recipient, complete and the
\* game-level finalize_trade a live trade stays in the registry and its state
\* stays or moves one place forward along Proposed, LockedIn, Accepted: never
\* back, never from Proposed to Accepted, never out of Accepted
C15_StateMovesForward ==
    [][\A trade_id \in DOMAIN trades :
          /\ trade_id \in DOMAIN trades'
          /\ Rank(trades'[trade_id].state) >= Rank(trades[trade_id].state)
          /\ Rank(trades'[trade_id].state) <= Rank(trades[trade_id].state) + 1]_vars

\* C15 witness: a trade has gone through to Accepted and a later
\* confirm_recipient on it has been refused
C15_Witness ==
    /\ last.op = "Bank::finalize_trade"
    /\ last.result = ErrCannotConfirm
    /\ get_trade(trades, last.args[1]) # <<>>
    /\ trades[last.args[1]].state = "Accepted"

\* the step is a call of Bank::accept_trade(trade_id, party)
Accepting(trade_id, party) ==
    /\ last'.op = "accept_trade"
    /\ last'.args = <<trade_id, party>>

\* the step is a call of Bank::finalize_trade(trade_id, party)
Confirming(trade_id, party) ==
    /\ last'.op = "Bank::finalize_trade"
    /\ last'.args = <<trade_id, party>>

\* C16: accept and confirm_recipient on a trade that is LockedIn or Accepted
\* fail with their "Cannot ... at this stage" error and leave the trade's
\* state, acceptance log and counter-party as they were
C16_LateCallsRefused ==
    [][\A trade_id \in DOMAIN trades, party \in Colours :
          trades[trade_id].state \in {"LockedIn", "Accepted"}
          => /\ Accepting(trade_id, party)
                  => (last'.result = ErrCannotAccept /\ trades' = trades)
             /\ Confirming(trade_id, party)
                  => (last'.result = ErrCannotConfirm /\ trades' = trades)]_vars

\* C16 witness: an accept by a new party has been refused on a trade that is
\* locked in with another party and has a log
C16_Witness ==
    /\ last.op = "accept_trade"
    /\ last.result = ErrCannotAccept
    /\ get_trade(trades, last.args[1]) # <<>>
    /\ trades[last.args[1]].state = "LockedIn"
    /\ trades[last.args[1]].accepted_by # <<>>
    /\ trades[last.args[1]].to # last.args[2]

\* C17: accept(party) on a Proposed trade returns Ok, leaves the state
\* Proposed and the counter-party unset, and appends party at the end of the
\* acceptance log, which grows by one also when party is already in it
C17_AcceptAppends ==
    [][\A trade_id \in DOMAIN trades, party \in Colours :
          (Accepting(trade_id, party) /\ trades[trade_id].state = "Proposed")
          => /\ last'.result = "Ok"
             /\ trades'[trade_id].state = "Proposed"
             /\ trades'[trade_id].to = None
             /\ trades'[trade_id].accepted_by = Append(trades[trade_id].accepted_by, party)
             /\ Len(trades'[trade_id].accepted_by) = Len(trades[trade_id].accepted_by) + 1
             /\ trades' = [trades EXCEPT ![trade_id].accepted_by = Append(@, party)]]_vars

\* C17 witness: a party has accepted a Proposed trade a second time
C17_Witness ==
    /\ last.op = "accept_trade"
    /\ last.result = "Ok"
    /\ get_trade(trades, last.args[1]) # <<>>
    /\ trades[last.args[1]].state = "Proposed"
    /\ trades[last.args[1]].accepted_by = <<last.args[2], last.args[2]>>

\* the party is in the acceptance log of the trade
InLog(trade, party) == \E i \in 1..Len(trade.accepted_by) : trade.accepted_by[i] = party

\* C18: confirm_recipient(party) on a Proposed trade returns Ok for every
\* party, in the acceptance log or not, records party as the counter-party,
\* moves the trade to LockedIn and leaves the log as it was
C18_ConfirmLocksIn ==
    [][\A trade_id \in DOMAIN trades, party \in Colours :
          (Confirming(trade_id, party) /\ trades[trade_id].state = "Proposed")
          => /\ last'.result = "Ok"
             /\ trades'[trade_id].to = party
             /\ trades'[trade_id].state = "LockedIn"
             /\ trades'[trade_id].accepted_by = trades[trade_id].accepted_by
             /\ trades' = [trades EXCEPT ![trade_id].to = party,
                                         ![trade_id].state = "LockedIn"]]_vars

\* C18 witness: a party that is not in the log has been confirmed while
\* another party is in it
C18_Witness ==
    /\ last.op = "Bank::finalize_trade"
    /\ last.result = "Ok"
    /\ get_trade(trades, last.args[1]) # <<>>
    /\ trades[last.args[1]].state = "LockedIn"
    /\ trades[last.args[1]].to = last.args[2]
    /\ trades[last.args[1]].accepted_by # <<>>
    /\ ~InLog(trades[last.args[1]], last.args[2])

\* C19: propose_trade(from, offering, wants) returns an identifier that was
\* not a key of the registry; the registry gains that one entry and keeps
\* the others; the new trade is Proposed with an empty log, no counter-party
\* and the given from, offering and wants; get_trade of the identifier finds it
C19_ProposeAddsOneTrade ==
    [][last'.op = "propose_trade"
          => /\ last'.result = "Ok"
             /\ last'.value \notin DOMAIN trades
             /\ DOMAIN trades' = DOMAIN trades \cup {last'.value}
             /\ Cardinality(DOMAIN trades') = Cardinality(DOMAIN trades) + 1
             /\ \A k \in DOMAIN trades : trades'[k] = trades[k]
             /\ get_trade(trades', last'.value) # <<>>
             /\ LET trade == get_trade(trades', last'.value)[1]
                IN /\ trade.state = "Proposed"
                   /\ trade.accepted_by = <<>>
                   /\ trade.to = None
                   /\ trade.from = last'.args[1]
                   /\ trade.offering = last'.args[2]
                   /\ trade.wants = last'.args[3]]_vars

\* C19 witness: propose_trade has just stored a trade whose offering and
\* wants differ, next to a live trade that is locked in
C19_Witness ==
    /\ last.op = "propose_trade"
    /\ get_trade(trades, last.value) # <<>>
    /\ trades[last.value].state = "Proposed"
    /\ trades[last.value].offering # trades[last.value].wants
    /\ \E k \in DOMAIN trades \ {last.value} : trades[k].state = "LockedIn"

\* the players of game.rs test_trade, as the game holds them before the trade
Ledgers ==
    { <<>>,
      <<[colour |-> "Red", resources |-> new_explicit(0, 1, 1, 0, 0)]>>,
      <<[colour |-> "Red", resources |-> new_explicit(0, 1, 1, 0, 0)],
        [colour |-> "Blue", resources |-> new_explicit(2, 0, 0, 0, 0)]>> }

\* C20: with an identifier that is not a key of the registry, get_trade
\* returns None; accept_trade and the bank-level finalize_trade fail with
\* "Trade not found" and the game-level finalize_trade with "Could not find
\* trade with that ID"; the registry and every ledger stay as they were
C20_AbsentIdNotFound ==
    /\ [](\A trade_id \in TradeIds \ DOMAIN trades :
             /\ get_trade(trades, trade_id) = <<>>
             /\ \A ps \in Ledgers :
                   finalize_trade(ps, trades, trade_id, overflow_checks)
                       = [players |-> ps, trades |-> trades, result |-> ErrNoTradeWithId])
    /\ [][\A trade_id \in TradeIds \ DOMAIN trades, party \in Colours :
             /\ (Accepting(trade_id, party) \/ Confirming(trade_id, party))
                   => (last'.result = ErrTradeNotFound
                       /\ trades' = trades /\ players' = players)
             /\ GameFinalized(trade_id)
                   => (last'.result = ErrNoTradeWithId
                       /\ trades' = trades /\ players' = players)]_vars

\* C20 witness: accept_trade has failed on an identifier that is not a key
\* while the registry holds a trade
C20_Witness ==
    /\ last.op = "accept_trade"
    /\ last.result = ErrTradeNotFound
    /\ last.args[1] \notin DOMAIN trades
    /\ DOMAIN trades # {}

\* C21: get_trade_partner of a registry entry fails with "No trade partner"
\* while the entry is Proposed; once it is LockedIn or Accepted it returns
\* the party of the confirm_recipient call that succeeded on it, and goes on
\* returning that party over every later call
C21_PartnerIsConfirmedParty ==
    [][\A trade_id \in DOMAIN trades' :
          LET partner == get_trade_partner(trades'[trade_id])
          IN /\ trades'[trade_id].state = "Proposed"
                  => (partner.result = ErrNoPartner /\ partner.value = None)
             /\ trades'[trade_id].state \in {"LockedIn", "Accepted"}
                  => /\ partner.result = "Ok"
                     /\ trade_id \in DOMAIN trades
                     /\ trades[trade_id].state = "Proposed"
                          => /\ last'.op = "Bank::finalize_trade"
                             /\ last'.result = "Ok"
                             /\ last'.args = <<trade_id, partner.value>>
                     /\ trades[trade_id].state # "Proposed"
                          => partner.value = get_trade_partner(trades[trade_id]).value]_vars

\* C21 witness: a trade confirmed with a party other than its offering party
\* has been completed and get_trade_partner returns that party
C21_Witness ==
    /\ last.op = "complete"
    /\ last.result = "Ok"
    /\ trades[last.args[1]].state = "Accepted"
    /\ get_trade_partner(trades[last.args[1]]).result = "Ok"
    /\ get_trade_partner(trades[last.args[1]]).value # trades[last.args[1]].from

\* C26: every registry entry has no counter-party exactly when it is
\* Proposed, and has one when it is LockedIn or Accepted, so that
\* get_trade_partner never unwraps an absent counter-party
C26_PartnerSetIffNotProposed ==
    \A trade_id \in DOMAIN trades :
        /\ (trades[trade_id].to = None) <=> (trades[trade_id].state = "Proposed")
        /\ trades[trade_id].state \in {"LockedIn", "Accepted"} => trades[trade_id].to \in Colours
        /\ get_trade_partner(trades[trade_id]).result # "panic"

\* C26 witness: a trade with a counter-party is Accepted and an accept on it
\* has been refused
C26_Witness ==
    /\ last.op = "accept_trade"
    /\ last.result = ErrCannotAccept
    /\ trades[last.args[1]].state = "Accepted"
    /\ trades[last.args[1]].to \in Colours

\* C27: over every call, a registry entry keeps its offering party, its
\* offering bundle and its wanted bundle, and keeps its counter-party once
\* it has one
C27_TermsFixed ==
    [][\A trade_id \in DOMAIN trades :
          /\ trade_id \in DOMAIN trades'
          /\ trades'[trade_id].from = trades[trade_id].from
          /\ trades'[trade_id].offering = trades[trade_id].offering
          /\ trades'[trade_id].wants = trades[trade_id].wants
          /\ trades[trade_id].to # None => trades'[trade_id].to = trades[trade_id].to]_vars

\* C27 witness: a confirm_recipient with another party has been refused on a
\* trade that has a counter-party and an acceptance by a party other than
\* its offering party
C27_Witness ==
    /\ last.op = "Bank::finalize_trade"
    /\ last.result = ErrCannotConfirm
    /\ trades[last.args[1]].to \in Colours \ {last.args[2]}
    /\ \E i \in 1..Len(trades[last.args[1]].accepted_by) :
          trades[last.args[1]].accepted_by[i] # trades[last.args[1]].from

---------------------------------------------------------------------------
(* Properties of the registry calls, checked under SpecFrame *)

\* the identifier of the trade the call of the step is about
Target == IF last'.op = "propose_trade" THEN last'.value ELSE last'.args[1]

\* C25: a call of propose_trade, accept_trade or the bank-level
\* finalize_trade, successful or failed, leaves the reserve, the card stock,
\* every ledger and every registry entry other than the one it is about as
\* they were, and adds no key other than that one
C25_RegistryCallsFrame ==
    [][last'.op \in {"propose_trade", "accept_trade", "Bank::finalize_trade"}
          => /\ resources' = resources
             /\ development_cards' = development_cards
             /\ players' = players
             /\ DOMAIN trades \subseteq DOMAIN trades'
             /\ DOMAIN trades' \subseteq DOMAIN trades \cup {Target}
             /\ \A k \in DOMAIN trades \ {Target} : trades'[k] = trades[k]]_vars

\* C25 witness: a party has been confirmed on one trade while another trade,
\* with an acceptance logged, is live
C25_Witness ==
    /\ last.op = "Bank::finalize_trade"
    /\ last.result = "Ok"
    /\ \E k \in DOMAIN trades :
          /\ k # last.args[1]
          /\ trades[k].state = "Proposed"
          /\ trades[k].accepted_by # <<>>

---------------------------------------------------------------------------
(* Properties of the reserve, checked under SpecReserve *)

\* units of one kind in the pools that are distributed and not returned
RECURSIVE Outstanding(_, _)
Outstanding(pools, f) ==
    IF pools = <<>> THEN 0 ELSE Head(pools)[f] + Outstanding(Tail(pools), f)

\* C6: for every kind, the reserve and the outstanding pools hold counts
\* that are not wrapped words and together make 19 units (95 in all)
C6_ResourceConservation ==
    \A f \in FieldSet :
        /\ resources[f] >= 0
        /\ \A i \in 1..Len(held_pools) : held_pools[i][f] >= 0
        /\ resources[f] + Outstanding(held_pools, f) = TOTAL_RESOURCES

\* C10: distribute_resource(kind, amount) with amount <= the reserve's count
\* of kind succeeds, takes exactly amount from that count, leaves the other
\* four counts and returns a pool holding amount of kind and 0 of the others
C10_DistributeWithinSupply ==
    [][\A kind \in ResourceKind, amount \in Amounts :
          ( /\ last'.op = "distribute_resource"
            /\ last'.args = <<kind, amount>>
            /\ ~ult(resources[index(kind)], amount) )
          => ( /\ last'.result = "Ok"
               /\ resources'[index(kind)] = resources[index(kind)] - amount
               /\ resources'[index(kind)] >= 0
               /\ \A f \in FieldSet \ {index(kind)} : resources'[f] = resources[f]
               /\ last'.value[index(kind)] = amount
               /\ \A f \in FieldSet \ {index(kind)} : last'.value[f] = 0 )]_vars

\* the step is a call of distribute_resource(kind, amount)
Distributed(kind, amount) ==
    /\ last'.op = "distribute_resource"
    /\ last'.args = <<kind, amount>>

\* C11: distribute_resource(kind, amount) with amount greater than the
\* reserve's count of kind fails with "Cannot distribute that amount of
\* resources" and leaves all five counts of the reserve as they were
C11_OverdrawRejected ==
    [][\A kind \in ResourceKind, amount \in Amounts :
          (Distributed(kind, amount) /\ ult(resources[index(kind)], amount))
              => (last'.result = ErrCannotDistribute /\ resources' = resources)]_vars

\* C12: in every state of the reserve, for every kind and amount for which
\* distribute_resource succeeds, return_resources with the pool it returned
\* ends without a panic and leaves all five counts as before the two calls
C12_DistributeReturnRoundTrip ==
    \A kind \in ResourceKind, amount \in Amounts :
        LET d == distribute_resource(resources, kind, amount, overflow_checks)
            r == return_resources(d.resources, d.value, overflow_checks)
        IN d.result = "Ok" => (~r.panic /\ r.val = resources)

\* C12 witness: a pool that is not empty has been distributed from the full
\* reserve and returned to it
C12_Witness ==
    /\ last.op = "return_resources"
    /\ last.result = "Ok"
    /\ last.args[1] # Resources_new
    /\ held_pools = <<>>
    /\ resources = new_with_amount(TOTAL_RESOURCES)

\* C24: the check of distribute_resource rejects the call exactly when
\* amount is greater than the reserve's count of kind as machine words, and
\* an admitted call neither panics in the decrement nor wraps the count
C24_CastCheckIsExact ==
    [][\A kind \in ResourceKind, amount \in Amounts :
          Distributed(kind, amount)
          => /\ (last'.result = ErrCannotDistribute) <=> ult(resources[index(kind)], amount)
             /\ last'.result # "panic"
             /\ last'.result = "Ok" => ~ult(resources[index(kind)], resources'[index(kind)])]_vars

---------------------------------------------------------------------------
(* Properties of pools, checked under SpecPools *)

\* no count of a + b overflows a word
SumFits(a, b) == \A f \in FieldSet : ~add_overflows(a[f], b[f])

\* a holds at least b in every kind
Covers(a, b) == \A f \in FieldSet : ~ult(a[f], b[f])

\* C22: for pools a and b whose sums fit a word, a + b returns the pool of
\* the per-kind sums, which is also what a += b leaves; for a holding at
\* least b in every kind, a - b returns the pool of the per-kind
\* differences, which is also what a -= b leaves
C22_ElementWise ==
    /\ (last.op = "add" /\ SumFits(last.args[1], last.args[2]))
          => /\ last.result = "Ok"
             /\ \A f \in FieldSet : last.value[f] = last.args[1][f] + last.args[2][f]
             /\ last.value = add_assign(last.args[1], last.args[2], overflow_checks).val
    /\ (last.op = "sub" /\ Covers(last.args[1], last.args[2]))
          => /\ last.result = "Ok"
             /\ \A f \in FieldSet : last.value[f] = last.args[1][f] - last.args[2][f]
             /\ last.value = sub_assign(last.args[1], last.args[2], overflow_checks).val

\* C28: can_build(building) is true exactly when the pool holds at least
\* the cost of the building in every kind
C28_CanBuildIffCovered ==
    last.op = "can_build"
        => (last.value <=> Covers(last.args[1], get_resource_cost(last.args[2])))

---------------------------------------------------------------------------
(* Properties of the development-card stock, checked under SpecCards *)

RECURSIVE SumOver(_, _)
SumOver(count, kinds) ==
    IF kinds = {} THEN 0
    ELSE LET c == CHOOSE c \in kinds : TRUE
         IN count[c] + SumOver(count, kinds \ {c})

Total(count) == SumOver(count, DevelopmentCard)

\* the step is a call of distribute_random_development_card
Drew == last'.op = "distribute_random_development_card"

\* C7: per kind, the stock and the cards drawn and not returned make the
\* canonical count (2, 2, 14, 2, 5; 25 in all), and a failed draw changes
\* no count
C7_CardConservation ==
    /\ [](/\ \A c \in DevelopmentCard :
                development_cards[c] + drawn_cards[c] = canonical_cards[c]
          /\ Total(development_cards) + Total(drawn_cards) = 25)
    /\ [][(Drew /\ last'.result # "Ok")
             => (development_cards' = development_cards /\ drawn_cards' = drawn_cards)]_vars

\* C7 witness: a card has been returned while others are still out
C7_Witness ==
    /\ last.op = "return_dev_card"
    /\ Total(drawn_cards) > 0
    /\ Total(development_cards) < 25

\* C8: a draw fails only when no development card of any kind remains
C8_ExhaustedOnlyWhenEmpty ==
    [][(Drew /\ last'.result # "Ok") => Total(development_cards) = 0]_vars

\* C9: a draw on the fresh stock succeeds; a draw succeeds only while fewer
\* than 25 cards are out; with 25 cards out every draw fails with "No
\* development cards available" and changes nothing
C9_TwentySixthDrawFails ==
    [][Drew =>
          /\ (development_cards = canonical_cards => last'.result = "Ok")
          /\ (last'.result = "Ok" => Total(drawn_cards) < 25)
          /\ (Total(drawn_cards) = 25 =>
                 /\ last'.result = ErrNoCards
                 /\ development_cards' = development_cards)]_vars

\* C9 witness: the 26th draw has failed with all 25 cards out
C9_Witness ==
    /\ last.op = "distribute_random_development_card"
    /\ last.result = ErrNoCards
    /\ Total(drawn_cards) = 25

=============================================================================
